---- MODULE Spec2Model ----
(***************************************************************************)
(* Model of the Eltako integration (custom_components/eltako):             *)
(*   __init__.py  config-entry lifecycle (async_setup_entry,               *)
(*                async_unload_entry, the gateway registry in hass.data)   *)
(*   switch.py    EltakoSwitch (turn_on, turn_off, value_changed)          *)
(*   datetime.py  GatewayLastReceivedMessage and its platform setup        *)
(* gateway.py, device.py, config_helpers.py and const.py are modelled by  *)
(* their interface only: what the model needs of them (EnOceanGateway,    *)
(* the listener dispatch, the send queue, the status machine) follows the  *)
(* design document and is marked as such where it is defined.              *)
(***************************************************************************)
EXTENDS Integers, Sequences, FiniteSets, TLC

\* ------------------------------------------------------------------ bounds
MaxGateways == 2
MaxFrames == 1

\* --------------------------------------------------------------- constants
None == "None"
DOMAIN_ELTAKO == "eltako"
Entries == {"e1", "e2"}
EntryId == [e \in Entries |-> IF e = "e1" THEN 1 ELSE 2]
GwIds == {1, 2}

\* ------------------------------------------------------------------ state
VARIABLES
  pc,            \* per config entry: where its async_setup_entry stands
  entryData,     \* per config entry: config_entry.domain and config_entry.data
  outcome,       \* what the last step handed to the handler's caller, if it ended one
  setupGw,       \* per config entry: usb_gateway, the local of async_setup_entry
  eltakoConfig,  \* hass.data[DATA_ELTAKO][ELTAKO_CONFIG]
  dataEntities,  \* hass.data[DATA_ELTAKO][DATA_ENTITIES]
  registry,      \* hass.data[DATA_ELTAKO][<gateway name>]
  gateways,      \* the EnOceanGateway objects constructed so far
  frames,        \* inbound frames decoded so far (the clock of last-message)
  unloadLog      \* the calls the last async_unload_entry made, in order

lifeVars == <<pc, entryData, outcome, setupGw, eltakoConfig, dataEntities,
              registry, gateways, frames, unloadLog>>

VARIABLES
  swConf,        \* per switch: dev_eep, dev_id[1], _sender_eep, _sender_id[1]
  fastStatus,    \* general_settings[CONF_FAST_STATUS_CHANGE]
  isOn,          \* per switch: _attr_is_on
  turn,          \* per switch: where its turn_on / turn_off stands
  calls,         \* turn_on / turn_off calls made so far
  txQueue,       \* frames handed to the gateway, not yet written
  written,       \* frames written to the transport, in order
  sinceWrite,    \* time since the last write, counted up to the delay
  gapOk,         \* every write so far kept the delay to the one before
  rx             \* the value_changed call of the last step, if it was one

switchVars == <<swConf, fastStatus, isOn, turn, calls, txQueue, written,
                sinceWrite, gapOk, rx>>

VARIABLES
  gwStatus,      \* connection status of the gateway
  gwNotified,    \* the statuses the status-changed callback was fired with
  gwTaken,       \* the status values the gateway took, in order
  gwListeners,   \* the listener registry
  gwLoop,        \* the read loop: running or stopped
  gwDelivered    \* the dispatch of the last step, if it was one

gwVars == <<gwStatus, gwNotified, gwTaken, gwListeners, gwLoop, gwDelivered>>

\* what the steps of one part leave alone
notLife == <<switchVars, gwVars>>
notSwitch == <<lifeVars, gwVars>>
notGateway == <<lifeVars, switchVars>>

\* ------------------------------------------------- inputs of the lifecycle
\* config_entry.domain and config_entry.data, as async_setup_entry reads them:
\* the domain, whether CONF_GATEWAY_DESCRIPTION is a key, whether the
\* description holds "(" and ")", whether CONF_SERIAL_PATH is a key.
GoodData == [domain |-> DOMAIN_ELTAKO, hasDesc |-> TRUE, parens |-> TRUE,
             hasSerial |-> TRUE]
EntryDatas ==
  { GoodData,
    [GoodData EXCEPT !.domain = "other"],
    [GoodData EXCEPT !.hasDesc = FALSE],
    [GoodData EXCEPT !.parens = FALSE],
    [GoodData EXCEPT !.hasSerial = FALSE] }

\* config_entry.data[CONF_GATEWAY_DESCRIPTION] of entry e: distinct entries
\* carry distinct descriptions (each names its own gateway id).
Description(e, d) == [id |-> EntryId[e], parens |-> d.parens]

\* One gateway section of the YAML configuration: CONF_DEVICE_TYPE, whether
\* CONF_GATEWAY_ADDRESS is given, whether CONF_BASE_ID parses.
SerialConf == [device_type |-> "serial", address |-> FALSE, base_id_ok |-> TRUE]
GwConfs ==
  { SerialConf,
    [SerialConf EXCEPT !.device_type = "lan", !.address = TRUE],
    [SerialConf EXCEPT !.device_type = "lan"],
    [SerialConf EXCEPT !.device_type = "unsupported"],
    [SerialConf EXCEPT !.base_id_ok = FALSE] }

\* no gateway section (the None of a failed lookup)
NoConf == [device_type |-> None, address |-> FALSE, base_id_ok |-> FALSE]

\* What a read of the YAML configuration can return: whether the gateway
\* ids are unique, the ids of the gateways configured, their section.
Configs ==
  { [unique |-> FALSE, ids |-> GwIds, conf |-> SerialConf] } \cup
  { [unique |-> TRUE, ids |-> {1}, conf |-> SerialConf] } \cup
  { [unique |-> TRUE, ids |-> GwIds, conf |-> c] : c \in GwConfs }

\* hass.data[DATA_ELTAKO] without ELTAKO_CONFIG
NoConfig == [unique |-> TRUE, ids |-> {}, conf |-> NoConf]

\* ------------------------------------------------------ helpers (external)
\* config_helpers.config_check_gateway
ConfigCheckGateway(config) == config.unique
\* config_helpers.get_id_from_name
GetIdFromName(description) == description.id
\* config_helpers.async_find_gateway_config_by_id, on the configuration read
FindGatewayConfigById(config, id) ==
  IF id \in config.ids THEN config.conf ELSE NoConf
\* GatewayDeviceType.find
DeviceTypeFind(t) == IF t \in {"serial", "lan"} THEN t ELSE None
\* AddressExpression.parse raises on a malformed base id
BaseIdParses(gwconf) == gwconf.base_id_ok

\* -------------------------------------------------------- EnOceanGateway
\* EnOceanGateway(...): the object as constructed. dev_name is the name the
\* registry is keyed by; it is taken to be the entry's gateway description,
\* as the code that looks the gateway up by description and deletes it by
\* dev_name presupposes.
NewGateway(e, description) ==
  [ entry |-> e, dev_id |-> GetIdFromName(description),
    dev_name |-> description,
    state |-> "constructed",     \* constructed | running | unloaded
    unloadCalls |-> 0,           \* how often unload() ran
    unloadReturned |-> FALSE,    \* async_unload_entry returned for it
    listeners |-> {},            \* registered listeners
    handler |-> FALSE,           \* last-message-received handler set
    lastMsg |-> 0,               \* last-message timestamp (0: none)
    value |-> 0,                 \* GatewayLastReceivedMessage.native_value
    forwarded |-> FALSE,         \* its platforms were forwarded
    rxForwarded |-> FALSE,       \* decoded a frame after the forwarding
    rxUnloaded |-> FALSE ]       \* handled a frame after the unload returned

\* EnOceanGateway.async_setup: opens the transport and starts the read loop
GatewayAsyncSetup(gw) == [gw EXCEPT !.state = "running"]
\* EnOceanGateway.unload: closes the transport, clears all listeners
GatewayUnload(gw) ==
  [gw EXCEPT !.state = "unloaded", !.listeners = {}, !.handler = FALSE,
             !.unloadCalls = @ + 1]

\* ------------------------------------------------------ gateway registry
Names == { Description(e, GoodData) : e \in Entries } \cup
         { Description(e, [GoodData EXCEPT !.parens = FALSE]) : e \in Entries }
NoGw == 0

\* hass.data[DATA_ELTAKO][config_entry.data[CONF_GATEWAY_DESCRIPTION]]
GetGatewayFromHass(reg, e, d) == reg[Description(e, d)]
\* (variant: the gateway stored under a name other than the one looked up)
SetGatewayToHassOtherName(reg, gws, g) ==
  [reg EXCEPT ![[gws[g].dev_name EXCEPT !.parens = FALSE]] = g]
\* hass.data[DATA_ELTAKO][gateway_entity.dev_name] = gateway_entity
SetGatewayToHass(reg, gws, g) == [reg EXCEPT ![gws[g].dev_name] = g]
\* del hass.data[DATA_ELTAKO][gateway.dev_name]
DelGateway(reg, gws, g) == [reg EXCEPT ![gws[g].dev_name] = NoGw]
InRegistry(reg, g) == \E n \in Names : reg[n] = g

\* ------------------------------------------------------------ lifecycle
Ended(result, cause) == [result |-> result, cause |-> cause]
NoOutcome == [result |-> "none", cause |-> "none", constructed |-> FALSE]
Outcome(e, result, cause) ==
  [result |-> result, cause |-> cause, constructed |-> setupGw[e] # NoGw]

\* setups that may still construct a gateway
InFlight == { e \in Entries : pc[e] \in {"read_config", "find_config"} }

LifeInit ==
  /\ pc = [e \in Entries |-> "idle"]
  /\ entryData = [e \in Entries |-> GoodData]
  /\ outcome = NoOutcome
  /\ setupGw = [e \in Entries |-> NoGw]
  /\ eltakoConfig = NoConfig
  /\ dataEntities = {}
  /\ registry = [n \in Names |-> NoGw]
  /\ gateways = << >>
  /\ frames = 0
  /\ unloadLog = << >>

\* async_setup_entry ends before a gateway exists: the result goes to the
\* caller and the handler's argument and locals are gone.
Return(e, result, cause) ==
  /\ outcome' = Outcome(e, result, cause)
  /\ pc' = [pc EXCEPT ![e] = "idle"]
  /\ entryData' = [entryData EXCEPT ![e] = GoodData]

\* async_setup_entry, from its call to the first await (the configuration
\* read): the domain check.
SetupBegin(e, d) ==
  /\ pc[e] = "idle"
  /\ Len(gateways) + Cardinality(InFlight) < MaxGateways
  /\ IF d.domain # DOMAIN_ELTAKO
       THEN Return(e, "None", "wrong_domain")
       ELSE /\ outcome' = NoOutcome
            /\ pc' = [pc EXCEPT ![e] = "read_config"]
            /\ entryData' = [entryData EXCEPT ![e] = d]
  /\ UNCHANGED <<setupGw, eltakoConfig, dataEntities, registry, gateways,
                 frames, unloadLog>>
  /\ UNCHANGED notLife

\* async_setup_entry, from the configuration read to the second await
\* (async_find_gateway_config_by_id): uniqueness of the gateway ids, the
\* shared configuration, the gateway description.
SetupValidate(e, config) ==
  /\ pc[e] = "read_config"
  /\ IF ~ConfigCheckGateway(config)
       THEN /\ Return(e, "raise", "non_unique_gateway_ids")
            /\ UNCHANGED eltakoConfig
       ELSE /\ eltakoConfig' = config
            /\ IF ~entryData[e].hasDesc
                 THEN Return(e, "None", "missing_gateway_description")
                 ELSE IF ~entryData[e].parens
                 THEN Return(e, "None", "no_base_id_in_description")
                 ELSE /\ pc' = [pc EXCEPT ![e] = "find_config"]
                      /\ outcome' = NoOutcome
                      /\ UNCHANGED entryData
  /\ UNCHANGED <<setupGw, dataEntities, registry, gateways, frames, unloadLog>>
  /\ UNCHANGED notLife

\* How the checks between the gateway-configuration lookup and the
\* construction of the gateway end: "ok", or the result and its cause.
ConstructChecks(gwconf, d) ==
  IF gwconf = NoConf THEN Ended("None", "no_gateway_configuration")
  ELSE IF ~d.hasSerial THEN Ended("None", "missing_serial_path")
  ELSE IF DeviceTypeFind(gwconf.device_type) = None
    THEN Ended("False", "unsupported_device_type")
  ELSE IF DeviceTypeFind(gwconf.device_type) = "lan" /\ ~gwconf.address
    THEN Ended("raise", "missing_lan_gateway_address")
  ELSE IF ~BaseIdParses(gwconf) THEN Ended("raise", "malformed_base_id")
  ELSE Ended("ok", "none")

\* async_setup_entry, from the gateway-configuration lookup to the await of
\* usb_gateway.async_setup(): the remaining checks, then EnOceanGateway(...).
SetupConstruct(e, config) ==
  /\ pc[e] = "find_config"
  /\ LET gwconf == FindGatewayConfigById(config,
                      GetIdFromName(Description(e, entryData[e])))
         chk == ConstructChecks(gwconf, entryData[e])
     IN IF chk.result # "ok"
          THEN /\ Return(e, chk.result, chk.cause)
               /\ UNCHANGED <<gateways, setupGw>>
          ELSE /\ gateways' = Append(gateways,
                                NewGateway(e, Description(e, entryData[e])))
               /\ setupGw' = [setupGw EXCEPT ![e] = Len(gateways) + 1]
               /\ pc' = [pc EXCEPT ![e] = "gw_setup"]
               /\ outcome' = NoOutcome
               /\ UNCHANGED entryData
  /\ UNCHANGED <<eltakoConfig, dataEntities, registry, frames, unloadLog>>
  /\ UNCHANGED notLife

\* usb_gateway.async_setup() runs to its end
SetupGatewayUp(e) ==
  /\ pc[e] = "gw_setup"
  /\ gateways' = [gateways EXCEPT ![setupGw[e]] = GatewayAsyncSetup(@)]
  /\ pc' = [pc EXCEPT ![e] = "store"]
  /\ outcome' = NoOutcome
  /\ UNCHANGED <<entryData, setupGw, eltakoConfig, dataEntities,
                 registry, frames, unloadLog>>
  /\ UNCHANGED notLife

\* async_setup_entry after usb_gateway.async_setup() returned: the gateway
\* is stored, DATA_ENTITIES is reset, the platform setups are forwarded.
SetupStore(e) ==
  /\ pc[e] = "store"
  /\ registry' = SetGatewayToHass(registry, gateways, setupGw[e])
  /\ dataEntities' = {}
  /\ pc' = [pc EXCEPT ![e] = "forward_switch"]
  /\ outcome' = NoOutcome
  /\ UNCHANGED <<entryData, setupGw, eltakoConfig, gateways, frames,
                 unloadLog>>
  /\ UNCHANGED notLife

\* ------------------------------------------------------- platform setups
\* get_device_config_for_gateway(hass, gateway) takes two arguments
GetDeviceConfigParams == 2
\* switch.async_setup_entry passes (hass, gateway)
SwitchCallArgs == 2
\* datetime.async_setup_entry passes (hass, config_entry, gateway)
DatetimeCallArgs == 3

\* A call of get_device_config_for_gateway with nargs positional arguments:
\* the device configuration of the gateway out of the shared configuration,
\* or the TypeError of a call that does not fit the signature.
GetDeviceConfigForGateway(nargs, config, gw) ==
  IF nargs # GetDeviceConfigParams THEN "TypeError"
  ELSE IF gw.dev_id \in config.ids THEN "switch" ELSE "empty"

\* async_add_entities: the entity is added to the host and listens on its
\* gateway.
AddEntity(gw, entity) == [gw EXCEPT !.listeners = @ \cup {entity}]
\* the entity as it is recorded under DATA_ENTITIES
RecordEntity(ents, g, entity) == ents \cup {[gateway |-> g, entity |-> entity]}

\* switch.async_setup_entry (the host keeps an exception of a platform's
\* setup to that platform)
ForwardSwitch(e) ==
  /\ pc[e] = "forward_switch"
  /\ LET g == GetGatewayFromHass(registry, e, entryData[e])
         config == IF g = NoGw THEN "KeyError"
                   ELSE GetDeviceConfigForGateway(SwitchCallArgs, eltakoConfig,
                                                  gateways[g])
     IN IF config = "switch"
          THEN /\ gateways' = [gateways EXCEPT ![g] = AddEntity(@, "switch")]
               /\ dataEntities' = RecordEntity(dataEntities, g, "switch")
          ELSE UNCHANGED <<gateways, dataEntities>>
  /\ pc' = [pc EXCEPT ![e] = "forward_datetime"]
  /\ outcome' = NoOutcome
  /\ UNCHANGED <<entryData, setupGw, eltakoConfig, registry, frames,
                 unloadLog>>
  /\ UNCHANGED notLife

\* GatewayLastReceivedMessage.__init__: registers set_value as the gateway's
\* last-message-received handler
NewLastReceivedMessage(gw) == [gw EXCEPT !.handler = TRUE]

\* datetime.async_setup_entry, then async_setup_entry returns True
ForwardDatetime(e) ==
  /\ pc[e] = "forward_datetime"
  /\ LET g == GetGatewayFromHass(registry, e, entryData[e])
         config == IF g = NoGw THEN "KeyError"
                   ELSE GetDeviceConfigForGateway(DatetimeCallArgs, eltakoConfig,
                                                  gateways[g])
         gw1 == IF config \in {"KeyError", "TypeError"}
                  THEN gateways[setupGw[e]]
                  ELSE AddEntity(NewLastReceivedMessage(gateways[g]), "datetime")
     IN /\ gateways' = [gateways EXCEPT
                          ![setupGw[e]] = [gw1 EXCEPT !.forwarded = TRUE]]
        /\ dataEntities' = IF config \in {"KeyError", "TypeError"}
                             THEN dataEntities
                             ELSE RecordEntity(dataEntities, g, "datetime")
  /\ pc' = [pc EXCEPT ![e] = "loaded"]
  /\ outcome' = Outcome(e, "True", "none")
  /\ UNCHANGED <<entryData, setupGw, eltakoConfig, registry, frames, unloadLog>>
  /\ UNCHANGED notLife

\* ------------------------------------------------------------------ unload
\* (variant: the registry entry deleted before the gateway is unloaded)
UnloadStepsDelFirst == <<"del", "unload">>
\* the calls of async_unload_entry on the gateway it looked up, in order
UnloadSteps == <<"unload", "del">>

UnloadStep(st, step, g) ==
  LET entry == [call |-> step, registered |-> InRegistry(st.reg, g)]
  IN IF step = "unload"
       THEN [st EXCEPT !.gws[g] = GatewayUnload(@), !.log = Append(@, entry)]
       ELSE [st EXCEPT !.reg = DelGateway(@, st.gws, g), !.log = Append(@, entry)]

RECURSIVE RunUnload(_, _, _)
RunUnload(st, steps, g) ==
  IF steps = << >> THEN st
  ELSE RunUnload(UnloadStep(st, Head(steps), g), Tail(steps), g)

\* async_unload_entry; the host calls it for a loaded entry only
AsyncUnloadEntry(e) ==
  /\ pc[e] = "loaded"
  /\ LET g == GetGatewayFromHass(registry, e, entryData[e])
     IN IF g = NoGw
          THEN /\ unloadLog' = <<[call |-> "KeyError", registered |-> FALSE]>>
               /\ UNCHANGED <<registry, gateways>>
          ELSE LET st == RunUnload([reg |-> registry, gws |-> gateways,
                                    log |-> << >>], UnloadSteps, g)
               IN /\ registry' = st.reg
                  /\ gateways' = [st.gws EXCEPT ![g].unloadReturned = TRUE]
                  /\ unloadLog' = st.log
  /\ Return(e, "unloaded", "none")
  /\ setupGw' = [setupGw EXCEPT ![e] = NoGw]
  /\ UNCHANGED <<eltakoConfig, dataEntities, frames>>
  /\ UNCHANGED notLife

\* ------------------------------------------------------------ inbound frame
\* GatewayLastReceivedMessage.set_value
SetValue(gw, value) == [gw EXCEPT !.value = value]

\* The read loop of a running gateway takes one frame: a frame that decodes
\* stamps the last-message time and is handed to the last-message handler.
OnReceive(gw, decodable, now) ==
  LET seen == [gw EXCEPT !.rxUnloaded = @ \/ gw.unloadReturned]
  IN IF ~decodable THEN seen
     ELSE LET stamped == [seen EXCEPT !.lastMsg = now,
                                      !.rxForwarded = @ \/ gw.forwarded]
          IN IF gw.handler THEN SetValue(stamped, now) ELSE stamped

Receive(g, decodable) ==
  /\ g \in 1..Len(gateways)
  /\ gateways[g].state = "running"
  /\ frames < MaxFrames
  /\ frames' = frames + 1
  /\ gateways' = [gateways EXCEPT ![g] = OnReceive(@, decodable, frames + 1)]
  /\ outcome' = NoOutcome
  /\ UNCHANGED <<pc, entryData, setupGw, eltakoConfig, dataEntities,
                 registry, unloadLog>>
  /\ UNCHANGED notLife

LifeNext ==
  \/ \E e \in Entries, d \in EntryDatas : SetupBegin(e, d)
  \/ \E e \in Entries, c \in Configs : SetupValidate(e, c)
  \/ \E e \in Entries, c \in Configs : SetupConstruct(e, c)
  \/ \E e \in Entries : SetupGatewayUp(e)
  \/ \E e \in Entries : SetupStore(e)
  \/ \E e \in Entries : ForwardSwitch(e)
  \/ \E e \in Entries : ForwardDatetime(e)
  \/ \E e \in Entries : AsyncUnloadEntry(e)
  \/ \E g \in 1..MaxGateways, b \in BOOLEAN : Receive(g, b)

\* ================================================================ switch
MaxCalls == 3
\* gateway_config.get(CONF_GATEWAY_MESSAGE_DELAY): the delay between writes
MessageDelay == 2

Switches == {"s1", "s2"}
Discriminators == {None, "left", "right"}

\* The profiles of a switch as configured: the device profile with the
\* sender profile used with it.
ProfilePairs ==
  { [dev_eep |-> "F6_02_01", sender_eep |-> "F6_02_01"],
    [dev_eep |-> "F6_02_02", sender_eep |-> "F6_02_02"],
    [dev_eep |-> "M5_38_08", sender_eep |-> "A5_38_08"],
    [dev_eep |-> "A5_38_08", sender_eep |-> "M5_38_08"] }
\* EltakoSwitch(dev_id, dev_eep, sender_id, sender_eep): the profiles and the
\* discriminators of dev_id and of _sender_id
SwitchConfs ==
  { [dev_eep |-> p.dev_eep, dev_disc |-> dd,
     sender_eep |-> p.sender_eep, sender_disc |-> sd] :
      p \in ProfilePairs, dd \in Discriminators, sd \in Discriminators }
\* the configurations of the second switch
SecondSwitchConfs ==
  { c \in SwitchConfs :
      \/ c.dev_eep = "F6_02_01" /\ c.dev_disc = "right" /\ c.sender_disc = "right"
      \/ c.dev_eep = "M5_38_08" /\ c.dev_disc = None /\ c.sender_disc = None }

\* ---------------------------------------------------------- codec (external)
\* The organisation byte a profile decodes: RPS for F6-02-xx and M5-38-08,
\* 4BS for A5-38-08.
Org(eep) == IF eep = "A5_38_08" THEN "4bs" ELSE "rps"
\* Telegrams as value_changed gets them: the organisation, and of the data
\* byte the rocker action and the energy bow
Msgs == [org : {"rps", "4bs"}, action : 0..3, bow : {0, 1}]
\* the relay state M5-38-08 decodes: data byte 0x70 (action 3, bow set)
RelayState(msg) == msg.action = 3 /\ msg.bow = 1
\* EEP.decode_message: fails on a telegram of another organisation
Decodes(eep, msg) == msg.org = Org(eep)

\* Python's `not x` on _attr_is_on (None is falsy)
PyNot(x) == IF x = "True" THEN "False" ELSE "True"
PyBool(b) == IF b THEN "True" ELSE "False"

\* ------------------------------------------------------- value_changed
NoRx == [sw |-> None, decoded |-> FALSE, action |-> 0, bow |-> 0,
         before |-> None, after |-> None, scheduled |-> 0, raised |-> FALSE]

\* (variant: no try/except around decode_message)
ValueChangedNoTry(conf, is_on, msg) ==
  IF ~Decodes(conf.dev_eep, msg)
    THEN [is_on |-> is_on, scheduled |-> 0, raised |-> TRUE]
    ELSE [is_on |-> is_on, scheduled |-> 0, raised |-> FALSE]

\* (variant: the button release is not ignored)
ValueChangedAnyBow(conf, is_on, msg) ==
  IF ~Decodes(conf.dev_eep, msg)
    THEN [is_on |-> is_on, scheduled |-> 0, raised |-> FALSE]
  ELSE IF conf.dev_eep \in {"M5_38_08"}
    THEN [is_on |-> PyBool(RelayState(msg)), scheduled |-> 1, raised |-> FALSE]
  ELSE IF conf.dev_eep \in {"F6_02_01", "F6_02_02"}
    THEN IF \/ conf.dev_disc = None
            \/ (conf.dev_disc = "left" /\ msg.action = 1)
            \/ (conf.dev_disc = "right" /\ msg.action = 3)
           THEN [is_on |-> PyNot(is_on), scheduled |-> 1, raised |-> FALSE]
           ELSE [is_on |-> is_on, scheduled |-> 0, raised |-> FALSE]
  ELSE [is_on |-> is_on, scheduled |-> 0, raised |-> FALSE]

\* EltakoSwitch.value_changed: the new _attr_is_on, the number of
\* schedule_update_ha_state calls, whether an exception left the method.
ValueChanged(conf, is_on, msg) ==
  IF ~Decodes(conf.dev_eep, msg)
    THEN [is_on |-> is_on, scheduled |-> 0, raised |-> FALSE]
  ELSE IF conf.dev_eep \in {"M5_38_08"}
    THEN [is_on |-> PyBool(RelayState(msg)), scheduled |-> 1, raised |-> FALSE]
  ELSE IF conf.dev_eep \in {"F6_02_01", "F6_02_02"}
    THEN LET button_filter ==
               \/ conf.dev_disc = None
               \/ (conf.dev_disc # None /\ conf.dev_disc = "left" /\ msg.action = 1)
               \/ (conf.dev_disc # None /\ conf.dev_disc = "right" /\ msg.action = 3)
         IN IF button_filter /\ msg.bow # 0
              THEN [is_on |-> PyNot(is_on), scheduled |-> 1, raised |-> FALSE]
              ELSE [is_on |-> is_on, scheduled |-> 0, raised |-> FALSE]
  ELSE [is_on |-> is_on, scheduled |-> 0, raised |-> FALSE]

\* ------------------------------------------------------ turn_on / turn_off
\* the rocker action of turn_on (on = TRUE) and turn_off for a discriminator
RockerAction(on, disc) ==
  IF on THEN (IF disc = "right" THEN 3 ELSE 1)
        ELSE (IF disc = "right" THEN 2 ELSE 0)

\* (variant: the release frame sent first)
RockerFramesReleasedFirst(action) ==
  << [kind |-> "F6_02_01", action |-> action, bow |-> 0],
     [kind |-> "F6_02_01", action |-> action, bow |-> 1] >>

\* the two frames of a rocker call, in the order of their send_message
RockerFrames(action) ==
  << [kind |-> "F6_02_01", action |-> action, bow |-> 1],
     [kind |-> "F6_02_01", action |-> action, bow |-> 0] >>

\* the frame of a central-command call
SwitchingFrame(on) ==
  [kind |-> "A5_38_08", action |-> IF on THEN 1 ELSE 0, bow |-> 0]

Idle == [at |-> "idle", on |-> FALSE, action |-> 0, call |-> 0]

\* EltakoEntity.send_message: the frame goes to the gateway's send queue
SendMessage(queue, s, call, frame) ==
  Append(queue, [from |-> s, call |-> call, kind |-> frame.kind,
                 action |-> frame.action, bow |-> frame.bow])

\* the fast status change at the end of turn_on / turn_off
FastStatus(s, on) ==
  isOn' = IF fastStatus THEN [isOn EXCEPT ![s] = PyBool(on)] ELSE isOn

SwitchInit ==
  /\ swConf \in { f \in [Switches -> SwitchConfs] :
                    /\ f["s2"] \in SecondSwitchConfs
                    /\ f["s1"].dev_disc = f["s1"].sender_disc }
  /\ fastStatus \in BOOLEAN
  /\ isOn = [s \in Switches |-> None]
  /\ turn = [s \in Switches |-> Idle]
  /\ calls = 0
  /\ txQueue = << >>
  /\ written = << >>
  /\ sinceWrite = MessageDelay
  /\ gapOk = TRUE
  /\ rx = NoRx

\* turn_on (on = TRUE) or turn_off up to its first send_message. The method
\* is synchronous and runs beside the event loop, so another entity's sends
\* may fall between its two sends.
Turn(s, on) ==
  /\ turn[s].at = "idle"
  /\ calls < MaxCalls
  /\ calls' = calls + 1
  /\ rx' = NoRx
  /\ IF swConf[s].sender_eep \in {"F6_02_01", "F6_02_02"}
       THEN LET action == RockerAction(on, swConf[s].sender_disc)
            IN /\ txQueue' = SendMessage(txQueue, s, calls + 1,
                                         RockerFrames(action)[1])
               /\ turn' = [turn EXCEPT ![s] = [at |-> "second", on |-> on,
                                  action |-> action, call |-> calls + 1]]
               /\ UNCHANGED isOn
       ELSE IF swConf[s].sender_eep = "A5_38_08"
       THEN /\ txQueue' = SendMessage(txQueue, s, calls + 1, SwitchingFrame(on))
            /\ FastStatus(s, on)
            /\ UNCHANGED turn
       ELSE UNCHANGED <<txQueue, turn, isOn>>
  /\ UNCHANGED <<swConf, fastStatus, written, sinceWrite, gapOk>>
  /\ UNCHANGED notSwitch

TurnOn(s) == Turn(s, TRUE)
TurnOff(s) == Turn(s, FALSE)

\* the rest of a rocker turn_on / turn_off: the second send_message and the
\* fast status change
TurnSecond(s) ==
  /\ turn[s].at = "second"
  /\ rx' = NoRx
  /\ txQueue' = SendMessage(txQueue, s, turn[s].call,
                            RockerFrames(turn[s].action)[2])
  /\ FastStatus(s, turn[s].on)
  /\ turn' = [turn EXCEPT ![s] = Idle]
  /\ UNCHANGED <<swConf, fastStatus, calls, written, sinceWrite, gapOk>>
  /\ UNCHANGED notSwitch

\* the gateway's writer: the head of the queue goes to the transport once
\* the delay since the last write has passed
WriterFlush ==
  /\ txQueue # << >>
  /\ sinceWrite >= MessageDelay
  /\ written' = Append(written, Head(txQueue))
  /\ txQueue' = Tail(txQueue)
  /\ gapOk' = (gapOk /\ sinceWrite >= MessageDelay)
  /\ sinceWrite' = 0
  /\ rx' = NoRx
  /\ UNCHANGED <<swConf, fastStatus, isOn, turn, calls>>
  /\ UNCHANGED notSwitch

\* time passes
Tick ==
  /\ sinceWrite < MessageDelay
  /\ sinceWrite' = sinceWrite + 1
  /\ rx' = NoRx
  /\ UNCHANGED <<swConf, fastStatus, isOn, turn, calls, txQueue, written, gapOk>>
  /\ UNCHANGED notSwitch

\* the gateway hands a telegram to the switch: value_changed(msg)
Telegram(s, msg) ==
  /\ LET r == ValueChanged(swConf[s], isOn[s], msg)
     IN /\ isOn' = [isOn EXCEPT ![s] = r.is_on]
        /\ rx' = [sw |-> s, decoded |-> Decodes(swConf[s].dev_eep, msg),
                  action |-> msg.action, bow |-> msg.bow,
                  before |-> isOn[s], after |-> r.is_on,
                  scheduled |-> r.scheduled, raised |-> r.raised]
  /\ UNCHANGED <<swConf, fastStatus, turn, calls, txQueue, written,
                 sinceWrite, gapOk>>
  /\ UNCHANGED notSwitch

SwitchNext ==
  \/ \E s \in Switches : TurnOn(s)
  \/ \E s \in Switches : TurnOff(s)
  \/ \E s \in Switches : TurnSecond(s)
  \/ WriterFlush
  \/ Tick

\* the switches as telegrams find them: any configuration, any state that
\* earlier telegrams and turn_on / turn_off calls left
TelegramInit ==
  /\ swConf \in { f \in [Switches -> SwitchConfs] : f["s2"] \in SecondSwitchConfs }
  /\ fastStatus \in BOOLEAN
  /\ isOn \in [Switches -> {None, "True", "False"}]
  /\ turn = [s \in Switches |-> Idle]
  /\ calls = 0
  /\ txQueue = << >>
  /\ written = << >>
  /\ sinceWrite = MessageDelay
  /\ gapOk = TRUE
  /\ rx = NoRx

TelegramNext == \E s \in Switches, m \in Msgs : Telegram(s, m)

\* the switches of a specification that does not exercise them
SwitchParked ==
  /\ swConf = [s \in Switches |-> CHOOSE c \in SecondSwitchConfs : c.dev_disc = None]
  /\ fastStatus = FALSE
  /\ isOn = [s \in Switches |-> None]
  /\ turn = [s \in Switches |-> Idle]
  /\ calls = 0
  /\ txQueue = << >>
  /\ written = << >>
  /\ sinceWrite = MessageDelay
  /\ gapOk = TRUE
  /\ rx = NoRx

\* =============================================================== gateway
\* The gateway correlator (gateway.py), after the design document: the
\* connection status with its status-changed callback, and the dispatch of
\* inbound frames to the registered listeners.
MaxTransitions == 6

Statuses == {"DISCONNECTED", "CONNECTING", "CONNECTED", "ERROR"}

\* (variant: the callback fired on every set, also of the same value)
SetStatusAlwaysNotify(status, notified, new) ==
  [status |-> new, notified |-> Append(notified, new)]

\* the status is set: the status-changed callback fires if it changes
SetStatus(status, notified, new) ==
  IF new = status THEN [status |-> status, notified |-> notified]
  ELSE [status |-> new, notified |-> Append(notified, new)]

\* the listeners that can be registered: name, source id, discriminator
ListenerPool ==
  { [name |-> "a", id |-> 5, disc |-> None],
    [name |-> "b", id |-> 5, disc |-> "left"],
    [name |-> "c", id |-> 6, disc |-> "right"] }
\* inbound frames: whether they decode, the source id, the discriminator
InFrames == [decodable : BOOLEAN, id : {5, 6, 7}, disc : {"left", "right"}]

\* (variant: no wildcard, the discriminators must be equal)
MatchesNoWildcard(l, f) == l.id = f.id /\ l.disc = f.disc

\* the address rule: the ids are equal and the listener's discriminator is
\* None or equal to the frame's
Matches(l, f) == l.id = f.id /\ (l.disc = None \/ l.disc = f.disc)

\* on_receive: how often each listener of the snapshot is called for f
Dispatch(snapshot, f) ==
  [l \in snapshot |-> IF f.decodable /\ Matches(l, f) THEN 1 ELSE 0]

NoDispatch == [frame |-> [decodable |-> FALSE, id |-> 0, disc |-> None],
               snapshot |-> {}, called |-> [l \in {} |-> 0]]

GwInit ==
  /\ gwStatus = "DISCONNECTED"
  /\ gwNotified = << >>
  /\ gwTaken = << >>
  /\ gwListeners = {}
  /\ gwLoop = "stopped"
  /\ gwDelivered = NoDispatch

\* a step that sets the status to new
StatusStep(new) ==
  /\ new # gwStatus => Len(gwTaken) < MaxTransitions
  /\ LET r == SetStatus(gwStatus, gwNotified, new)
     IN /\ gwStatus' = r.status
        /\ gwNotified' = r.notified
        /\ gwTaken' = IF r.status # gwStatus THEN Append(gwTaken, r.status)
                      ELSE gwTaken

\* async_setup: the read loop starts, the transport connects
GwConnect ==
  /\ gwStatus = "DISCONNECTED" /\ gwLoop = "stopped" /\ gwTaken = << >>
  /\ StatusStep("CONNECTING")
  /\ gwLoop' = "running"
  /\ gwDelivered' = NoDispatch
  /\ UNCHANGED gwListeners
  /\ UNCHANGED notGateway

\* connect acknowledged
GwConnected ==
  /\ gwLoop = "running" /\ gwStatus = "CONNECTING"
  /\ StatusStep("CONNECTED")
  /\ gwDelivered' = NoDispatch
  /\ UNCHANGED <<gwListeners, gwLoop>>
  /\ UNCHANGED notGateway

\* I/O failure of the transport (while connected, or of a reconnect attempt)
GwIoFailure ==
  /\ gwLoop = "running" /\ gwStatus \in {"CONNECTED", "CONNECTING"}
  /\ StatusStep("ERROR")
  /\ gwDelivered' = NoDispatch
  /\ UNCHANGED <<gwListeners, gwLoop>>
  /\ UNCHANGED notGateway

\* the reconnect timer fires
GwReconnect ==
  /\ gwLoop = "running" /\ gwStatus = "ERROR"
  /\ StatusStep("CONNECTING")
  /\ gwDelivered' = NoDispatch
  /\ UNCHANGED <<gwListeners, gwLoop>>
  /\ UNCHANGED notGateway

\* unload: the loop and the reconnect timer stop, the listeners are cleared
GwUnload ==
  /\ gwLoop = "running"
  /\ StatusStep("DISCONNECTED")
  /\ gwLoop' = "stopped"
  /\ gwListeners' = {}
  /\ gwDelivered' = NoDispatch
  /\ UNCHANGED notGateway

GwRegister(l) ==
  /\ gwLoop = "running"
  /\ l \notin gwListeners
  /\ gwListeners' = gwListeners \cup {l}
  /\ gwDelivered' = NoDispatch
  /\ UNCHANGED <<gwStatus, gwNotified, gwTaken, gwLoop>>
  /\ UNCHANGED notGateway

GwUnregister(l) ==
  /\ l \in gwListeners
  /\ gwListeners' = gwListeners \ {l}
  /\ gwDelivered' = NoDispatch
  /\ UNCHANGED <<gwStatus, gwNotified, gwTaken, gwLoop>>
  /\ UNCHANGED notGateway

\* the read loop takes a frame: a frame that decodes while connecting
\* acknowledges the connection; the frame is dispatched over a snapshot of the registry
GwFrame(f) ==
  /\ gwLoop = "running" /\ gwStatus \in {"CONNECTING", "CONNECTED"}
  /\ StatusStep(IF f.decodable THEN "CONNECTED" ELSE gwStatus)
  /\ gwDelivered' = [frame |-> f, snapshot |-> gwListeners,
                     called |-> Dispatch(gwListeners, f)]
  /\ UNCHANGED <<gwListeners, gwLoop>>
  /\ UNCHANGED notGateway

GwNext ==
  \/ GwConnect
  \/ GwConnected
  \/ GwIoFailure
  \/ GwReconnect
  \/ GwUnload
  \/ \E l \in ListenerPool : GwRegister(l)
  \/ \E l \in ListenerPool : GwUnregister(l)
  \/ \E f \in InFrames : GwFrame(f)

\* the gateway of a specification that does not exercise it
GwParked == GwInit

vars == <<lifeVars, switchVars, gwVars>>

\* the config-entry lifecycle
Init == LifeInit /\ SwitchParked /\ GwParked
Next == LifeNext
Spec == Init /\ [][Next]_vars

\* turn_on / turn_off of the switches of one gateway and the gateway's writer
SwitchSpecInit == SwitchInit /\ LifeInit /\ GwParked
SpecSwitch == SwitchSpecInit /\ [][SwitchNext]_vars

\* the telegrams a switch receives
TelegramSpecInit == TelegramInit /\ LifeInit /\ GwParked
SpecTelegram == TelegramSpecInit /\ [][TelegramNext]_vars

\* the gateway correlator
GatewaySpecInit == GwInit /\ LifeInit /\ SwitchParked
SpecGateway == GatewaySpecInit /\ [][GwNext]_vars

\* ------------------------------------------------------ lifecycle properties
GwSet == 1..Len(gateways)
NameOf(e) == Description(e, entryData[e])
EntitiesOf(ents, g) == { x \in ents : x.gateway = g }

ConfigErrorCauses ==
  { "non_unique_gateway_ids", "missing_gateway_description",
    "missing_serial_path", "missing_lan_gateway_address", "malformed_base_id" }

\* C1: whenever async_setup_entry ends on one of the configuration error
\* classes (non-unique gateway ids, a missing gateway description, serial
\* path or LAN gateway address, a malformed base id), it ends by raising to
\* its caller, never by a plain return, and no gateway was constructed.
C1_ConfigErrorsSurfaced ==
  outcome.cause \in ConfigErrorCauses =>
    outcome.result = "raise" /\ ~outcome.constructed

\* C2: a gateway for which async_unload_entry returned had unload() called
\* exactly once, while it was still in the registry and before its entry was
\* deleted; it is closed, has no listeners, is no longer in the registry and
\* has handled no frame since.
C2_UnloadDestroysGateway ==
  /\ \A g \in GwSet : gateways[g].unloadReturned =>
       /\ gateways[g].unloadCalls = 1
       /\ gateways[g].state = "unloaded"
       /\ gateways[g].listeners = {}
       /\ ~InRegistry(registry, g)
       /\ ~gateways[g].rxUnloaded
  /\ unloadLog # << >> =>
       /\ Len(unloadLog) = 2
       /\ unloadLog[1] = [call |-> "unload", registered |-> TRUE]
       /\ unloadLog[2].call = "del"
  /\ \A e \in Entries : pc[e] = "loaded" =>
       gateways[setupGw[e]].unloadCalls = 0

\* C2 witness: a gateway that took a frame and listeners was unloaded, and
\* its entry was set up again with a new gateway.
C2_Witness ==
  \E g \in GwSet, h \in GwSet :
    /\ gateways[g].unloadReturned /\ gateways[g].lastMsg > 0
    /\ h # g /\ gateways[h].entry = gateways[g].entry
    /\ pc[gateways[h].entry] = "loaded"

\* C7: on a running gateway whose platforms were forwarded, once a frame was
\* decoded the GatewayLastReceivedMessage entity is the registered
\* last-message handler and its value is the gateway's last-message
\* timestamp.
C7_LastMessageEntityFollows ==
  \A g \in GwSet :
    (gateways[g].state = "running" /\ gateways[g].rxForwarded) =>
      /\ gateways[g].handler
      /\ gateways[g].value = gateways[g].lastMsg

C10_GatewaysIndependent ==
  [][ \A a \in Entries, b \in Entries :
        (a # b /\ pc[a] = "loaded" /\ pc'[b] # pc[b]) =>
          /\ registry'[NameOf(a)] = registry[NameOf(a)]
          /\ eltakoConfig' = eltakoConfig
          /\ EntitiesOf(dataEntities', setupGw[a])
               = EntitiesOf(dataEntities, setupGw[a]) ]_vars

\* --------------------------------------------------------- switch properties
RockerProfiles == {"F6_02_01", "F6_02_02"}

\* C3: the frames of one switch are written in the order of its
\* send_message calls: of one call the pressed frame (energy bow set) before
\* the released frame, an earlier call's frames before a later call's; and
\* every write kept the message delay to the write before it.
C3_SendOrder ==
  /\ \A i \in 1..Len(written), j \in 1..Len(written) :
       (i < j /\ written[i].from = written[j].from) =>
          \/ written[i].call < written[j].call
          \/ /\ written[i].call = written[j].call
             /\ written[i].bow = 1 /\ written[j].bow = 0
  /\ gapOk

\* C3 witness: the frame of another switch was written between the pressed
\* and the released frame of a rocker call, after an earlier call of the
\* same switch.
C3_Witness ==
  \E i \in 1..Len(written) :
    /\ i + 2 <= Len(written)
    /\ written[i].from = written[i + 2].from
    /\ written[i].call = written[i + 2].call
    /\ written[i + 1].from # written[i].from
    /\ \E k \in 1..Len(written) :
         written[k].from = written[i].from /\ written[k].call # written[i].call

\* C5: a value_changed whose decode_message failed left is_on as it was,
\* scheduled no state update and let no exception out.
C5_DecodeFailureIgnored ==
  (rx.sw # None /\ ~rx.decoded) =>
    /\ rx.after = rx.before
    /\ rx.scheduled = 0
    /\ ~rx.raised

\* C5 witness: a switch that was on got a telegram its profile cannot decode.
C5_Witness ==
  /\ rx.sw # None /\ ~rx.decoded
  /\ rx.before = "True"
  /\ swConf[rx.sw].dev_eep \in RockerProfiles

\* C8: on a rocker-profile switch a decoded release telegram leaves is_on
\* alone; a decoded press telegram toggles it, with one state update, if the
\* discriminator is None, or left with action 1, or right with action 3, and
\* leaves it alone otherwise.
C8_RockerToggle ==
  (rx.sw # None /\ rx.decoded /\ swConf[rx.sw].dev_eep \in RockerProfiles) =>
    LET disc == swConf[rx.sw].dev_disc
        mine == \/ disc = None
                \/ (disc = "left" /\ rx.action = 1)
                \/ (disc = "right" /\ rx.action = 3)
    IN IF rx.bow = 1 /\ mine
         THEN /\ rx.after = (IF rx.before = "True" THEN "False" ELSE "True")
              /\ rx.scheduled = 1
         ELSE rx.after = rx.before /\ rx.scheduled = 0

\* C8 witness: the press of the right rocker turned a right-side switch off.
C8_Witness ==
  /\ rx.sw # None /\ rx.decoded
  /\ swConf[rx.sw].dev_eep = "F6_02_02" /\ swConf[rx.sw].dev_disc = "right"
  /\ rx.action = 3 /\ rx.bow = 1
  /\ rx.before = "True" /\ rx.after = "False"

\* -------------------------------------------------------- gateway properties
\* C4: in a dispatch every listener of the registry is called once if the
\* frame decodes, its source id is the listener's and the listener's
\* discriminator is None or the frame's, and not at all otherwise; the read
\* loop runs on.
C4_DispatchExactlyOnce ==
  gwDelivered # NoDispatch =>
    /\ DOMAIN gwDelivered.called = gwDelivered.snapshot
    /\ \A l \in gwDelivered.snapshot :
         gwDelivered.called[l] =
           IF /\ gwDelivered.frame.decodable
              /\ l.id = gwDelivered.frame.id
              /\ (l.disc = None \/ l.disc = gwDelivered.frame.disc)
             THEN 1 ELSE 0
    /\ gwLoop = "running"

\* C4 witness: a frame from id 5, side right, with all three listeners
\* registered: the wildcard listener is called, the others are not.
C4_Witness ==
  /\ gwDelivered # NoDispatch
  /\ gwDelivered.snapshot = ListenerPool
  /\ gwDelivered.frame = [decodable |-> TRUE, id |-> 5, disc |-> "right"]
  /\ \A l \in ListenerPool : gwDelivered.called[l] = (IF l.name = "a" THEN 1 ELSE 0)

\* C6: the statuses the callback was fired with are the status values
\* taken, in order, none twice in a row, the last one the current status.
C6_StatusNotifiedOnce ==
  /\ gwNotified = gwTaken
  /\ \A i \in 1..(Len(gwNotified) - 1) : gwNotified[i] # gwNotified[i + 1]
  /\ gwNotified # << >> => gwNotified[Len(gwNotified)] = gwStatus

\* C6 witness: connect, failure, reconnect, unload.
C6_Witness ==
  gwNotified = <<"CONNECTING", "CONNECTED", "ERROR", "CONNECTING",
                 "CONNECTED", "DISCONNECTED">>

====
